---- MODULE Spec2Model ----
(***************************************************************************)
(* Recursive shadowcasting field of view of scoundrel-algorithm            *)
(* (src/scoundrel-algorithm/src/shadow_cast_2d/).                          *)
(*                                                                         *)
(* The three entry points cast_light_2d, cast_light_2d_diamond and         *)
(* cast_light_2d_beveled report the origin and then run the recursive      *)
(* scanner _cast_light once per octant.  The recursion is modelled with an *)
(* explicit call stack: one frame per active _cast_light call, one step    *)
(* per iteration of its row loop.                                          *)
(***************************************************************************)
EXTENDS Integers, Sequences, FiniteSets, TLC

VARIABLES
    map,         \* the Grid2D<Opacity> passed to the current call (never written)
    todo,        \* the calls still to be made, in order, each with its map
    pc,          \* "idle" between calls, "octants" inside an entry point
    variant,     \* the entry point being executed
    origin,      \* its origin argument
    range,       \* its range argument
    octant,      \* the next value of the loop `for octant in 0..8`
    transform,   \* local `transform` of the entry point's loop body
    tile_shape,  \* local `tile_shape` of the entry point
    stack,       \* active _cast_light frames, innermost last
    log,         \* the points passed to callback by the current call, in order
    hist,        \* the completed calls with the points each reported
    overflow_checks, \* the build's overflow-checks: TRUE panics, FALSE wraps
    unit         \* a direct call of one function of the module, as the unit
                 \* tests make: its name, arguments and result

vars == <<map, todo, pc, variant, origin, range, octant, transform,
          tile_shape, stack, log, hist,
          overflow_checks, unit>>

----------------------------------------------------------------------------
(* Bounds of the checked inputs *)

\* side of the square grids of the generic input family
GridSide == 2
\* largest number of opaque cells in a generic grid
MaxWalls == 1
\* largest range of a generic call
MaxRange == 2
\* largest coordinate and slope component of a direct call
UnitMax == 3
\* largest octant number of a direct call of octant_transform
MaxOctantArg == 12
----------------------------------------------------------------------------
(* i32 arithmetic.  An operation whose result does not fit panics in a      *)
(* build with overflow-checks and wraps around (two's complement) in a      *)
(* build without: the *_fits predicates tell whether it fits, i32_add,      *)
(* i32_sub and i32_mul give the result, wrapped when it does not fit.       *)

I32_MAX == 2147483647
I32_MIN == (-I32_MAX) - 1

add_fits(a, b) == IF b >= 0 THEN a <= I32_MAX - b ELSE a >= I32_MIN - b

sub_fits(a, b) == IF b >= 0 THEN a >= I32_MIN + b ELSE a <= I32_MAX + b

mul_fits(a, b) ==
    IF a = 0 \/ b = 0 THEN TRUE
    ELSE IF a = I32_MIN THEN b = 1
    ELSE IF b = I32_MIN THEN a = 1
    ELSE LET aa == IF a < 0 THEN -a ELSE a
             bb == IF b < 0 THEN -b ELSE b
         IN  IF (a < 0) = (b < 0)
             THEN aa <= I32_MAX \div bb
             ELSE \/ aa <= I32_MAX \div bb
                  \/ /\ aa = (I32_MAX \div bb) + 1
                     /\ I32_MAX % bb = bb - 1

i32_add(a, b) ==
    IF add_fits(a, b) THEN a + b
    ELSE IF b > 0 THEN (a - I32_MAX - 1) + (b - I32_MAX - 1)
    ELSE (a + I32_MAX + 1) + (b + I32_MAX + 1)

i32_sub(a, b) ==
    IF sub_fits(a, b) THEN a - b
    ELSE IF b = I32_MIN THEN a + I32_MIN
    ELSE i32_add(a, -b)

\* a * n for n >= 0, by doubling
RECURSIVE i32_mul_nat(_, _)
i32_mul_nat(a, n) ==
    IF n = 0 THEN 0
    ELSE LET h == i32_mul_nat(i32_add(a, a), n \div 2)
         IN  IF n % 2 = 1 THEN i32_add(h, a) ELSE h

i32_mul(a, b) ==
    IF mul_fits(a, b) THEN a * b
    ELSE IF b >= 0 THEN i32_mul_nat(a, b)
    ELSE IF b = I32_MIN THEN (IF a % 2 = 0 THEN 0 ELSE I32_MIN)
    ELSE i32_sub(0, i32_mul_nat(a, -b))

----------------------------------------------------------------------------
(* scoundrel-geometry: Vector2<i32>, Mat2<i32> *)

Point_new(x, y) == [x |-> x, y |-> y]

Point_add(a, b) == [x |-> i32_add(a.x, b.x), y |-> i32_add(a.y, b.y)]

Point_add_overflows(a, b) == ~add_fits(a.x, b.x) \/ ~add_fits(a.y, b.y)

row_major(xx, xy, yx, yy) ==
    [col1 |-> Point_new(xx, yx), col2 |-> Point_new(xy, yy)]

\* mutant of ident: the two columns are exchanged
ident_swapped == [col1 |-> Point_new(0, 1), col2 |-> Point_new(1, 0)]

ident == [col1 |-> Point_new(1, 0), col2 |-> Point_new(0, 1)]

Mat2_mul(m, rhs) ==
    [x |-> i32_add(i32_mul(m.col1.x, rhs.x), i32_mul(m.col2.x, rhs.y)),
     y |-> i32_add(i32_mul(m.col1.y, rhs.x), i32_mul(m.col2.y, rhs.y))]

Mat2_mul_overflows(m, rhs) ==
    \/ ~mul_fits(m.col1.x, rhs.x)
    \/ ~mul_fits(m.col2.x, rhs.y)
    \/ ~add_fits(i32_mul(m.col1.x, rhs.x), i32_mul(m.col2.x, rhs.y))
    \/ ~mul_fits(m.col1.y, rhs.x)
    \/ ~mul_fits(m.col2.y, rhs.y)
    \/ ~add_fits(i32_mul(m.col1.y, rhs.x), i32_mul(m.col2.y, rhs.y))

\* i32 division truncates toward zero (b /= 0; I32_MIN / -1 does not occur:
\* the scanner only divides by an even number)
i32_div(a, b) ==
    IF b > 0
    THEN IF a < 0 /\ a % b /= 0 THEN (a \div b) + 1 ELSE a \div b
    ELSE IF b = I32_MIN THEN (IF a = I32_MIN THEN 1 ELSE 0)
    ELSE IF a = I32_MIN THEN ((b - a) \div (-b)) + 1
    ELSE LET q == (IF a < 0 THEN -a ELSE a) \div (-b)
         IN  IF a < 0 THEN q ELSE -q

----------------------------------------------------------------------------
(* scoundrel-geometry: Grid2D<T> *)

\* Option<T>: None is the empty tuple, Some(v) the one-element tuple
None == <<>>
Some(v) == <<v>>

Grid2D_new(width, height, fill) ==
    [data |-> [i \in 1..(width * height) |-> fill],
     width |-> width, height |-> height]

from_iter(iter, width, height) ==
    [data |-> iter, width |-> width, height |-> height]

\* index into data (0-based, as in the source) or None
Grid2D_index(g, pt) ==
    IF pt.x >= 0 /\ pt.x < g.width /\ pt.y >= 0 /\ pt.y < g.height
    THEN Some(pt.y * g.width + pt.x)
    ELSE None

Grid2D_get(g, pt) ==
    LET idx == Grid2D_index(g, pt)
    IN  IF idx = None THEN None ELSE Some(g.data[idx[1] + 1])

\* mutant of LabeledGraph_get: a point outside the grid reads as transparent
LabeledGraph_get_or_transparent(g, point) ==
    IF Grid2D_get(g, point) = None THEN Some("Transparent")
                                   ELSE Grid2D_get(g, point)

\* LabeledGraph<T> for Grid2D<T>
LabeledGraph_get(g, point) == Grid2D_get(g, point)

----------------------------------------------------------------------------
(* shadow_cast_2d/opacity.rs, slope.rs, octant.rs *)

Opaque == "Opaque"
Transparent == "Transparent"
Opacity == {Opaque, Transparent}

Slope_new(rise, run) ==
    IF run < 0 THEN [rise |-> i32_mul(rise, -1), run |-> i32_mul(run, -1)]
               ELSE [rise |-> rise, run |-> run]

Slope_new_overflows(rise, run) ==
    run < 0 /\ (~mul_fits(rise, -1) \/ ~mul_fits(run, -1))

ONE == Slope_new(1, 1)
ZERO == Slope_new(0, 0)

Slope_cmp(self, other) ==
    LET l == i32_mul(self.rise, other.run)
        r == i32_mul(other.rise, self.run)
    IN  IF l < r THEN "Less" ELSE IF l = r THEN "Equal" ELSE "Greater"

Slope_cmp_overflows(self, other) ==
    ~mul_fits(self.rise, other.run) \/ ~mul_fits(other.rise, self.run)

\* mutant of Slope_eq: equality by value, as the ordering
Slope_eq_by_value(a, b) == Slope_cmp(a, b) = "Equal"

\* #[derive(Eq, PartialEq)]: a == b compares the fields
Slope_eq(a, b) == a.rise = b.rise /\ a.run = b.run

Slope_lt(a, b) == Slope_cmp(a, b) = "Less"
Slope_gt(a, b) == Slope_cmp(a, b) = "Greater"

\* panic!("Invalid octant number: {}", octant): no matrix is returned
Panic == [panic |-> "Invalid octant number"]

\* mutant of octant_transform: the octant number is taken modulo 8
octant_transform_mod8(n) ==
    CASE n % 8 = 0 -> ident
      [] n % 8 = 1 -> row_major(0, 1, 1, 0)
      [] n % 8 = 2 -> row_major(0, -1, 1, 0)
      [] n % 8 = 3 -> row_major(-1, 0, 0, 1)
      [] n % 8 = 4 -> row_major(-1, 0, 0, -1)
      [] n % 8 = 5 -> row_major(0, -1, -1, 0)
      [] n % 8 = 6 -> row_major(0, 1, -1, 0)
      [] n % 8 = 7 -> row_major(1, 0, 0, -1)

\* mutant of octant_transform: octant 6 repeats the matrix of octant 1
octant_transform_dup(n) ==
    CASE n = 0 -> ident
      [] n = 1 -> row_major(0, 1, 1, 0)
      [] n = 2 -> row_major(0, -1, 1, 0)
      [] n = 3 -> row_major(-1, 0, 0, 1)
      [] n = 4 -> row_major(-1, 0, 0, -1)
      [] n = 5 -> row_major(0, -1, -1, 0)
      [] n = 6 -> row_major(0, 1, 1, 0)
      [] n = 7 -> row_major(1, 0, 0, -1)
      [] OTHER -> Panic

octant_transform(n) ==
    CASE n = 0 -> ident
      [] n = 1 -> row_major(0, 1, 1, 0)
      [] n = 2 -> row_major(0, -1, 1, 0)
      [] n = 3 -> row_major(-1, 0, 0, 1)
      [] n = 4 -> row_major(-1, 0, 0, -1)
      [] n = 5 -> row_major(0, -1, -1, 0)
      [] n = 6 -> row_major(0, 1, -1, 0)
      [] n = 7 -> row_major(1, 0, 0, -1)
      [] OTHER -> Panic

----------------------------------------------------------------------------
(* shadow_cast_2d/tile_shape.rs *)

SquareTileShape == [kind |-> "Square"]
DiamondTileShape == [kind |-> "Diamond"]
AdamMilazzoTileShape_new(m, o, t) ==
    [kind |-> "AdamMilazzo", map |-> m, origin |-> o, transform |-> t]

\* canonical (x, y) to world coordinates: origin + transform * Point::new(y, x)
map_pt_of(o, t, x, y) == Point_add(o, Mat2_mul(t, Point_new(y, x)))

\* mutant of blocks_light: a tile outside the map blocks light too
blocks_light_outside(self, x, y) ==
    LabeledGraph_get(self.map, map_pt_of(self.origin, self.transform, x, y))
        /= Some(Transparent)

blocks_light(self, x, y) ==
    LabeledGraph_get(self.map, map_pt_of(self.origin, self.transform, x, y))
        = Some(Opaque)

\* an operation of origin + transform * Point::new(y, x) overflows
map_pt_overflows(o, t, x, y) ==
    \/ Mat2_mul_overflows(t, Point_new(y, x))
    \/ Point_add_overflows(o, Mat2_mul(t, Point_new(y, x)))

\* Slope::new(2 * y + cy, 2 * x + cx), the form of every tile slope, and
\* whether one of its operations overflows
corner_overflows(y, cy, x, cx) ==
    \/ ~mul_fits(2, y)
    \/ ~add_fits(i32_mul(2, y), cy)
    \/ ~mul_fits(2, x)
    \/ ~add_fits(i32_mul(2, x), cx)
    \/ Slope_new_overflows(i32_add(i32_mul(2, y), cy), i32_add(i32_mul(2, x), cx))

Square_tile_slope_high(x, y) ==
    Slope_new(i32_add(i32_mul(2, y), 1), i32_sub(i32_mul(2, x), 1))
\* mutant of Square_tile_slope_low: the near corner instead of the far one
Square_tile_slope_low_near(x, y) ==
    Slope_new(i32_sub(i32_mul(2, y), 1), i32_sub(i32_mul(2, x), 1))

Square_tile_slope_low(x, y) ==
    Slope_new(i32_sub(i32_mul(2, y), 1), i32_add(i32_mul(2, x), 1))
\* mutant of Square_prev_tile_slope_low: the top-left corner of the wall above
Square_prev_tile_slope_low_wall_top(x, y) ==
    Slope_new(i32_add(i32_mul(2, y), 3), i32_sub(i32_mul(2, x), 1))

Square_prev_tile_slope_low(x, y) ==
    Slope_new(i32_add(i32_mul(2, y), 1), i32_add(i32_mul(2, x), 1))

\* mutant of Diamond_tile_slope_high: the run is measured from the row before
Diamond_tile_slope_high_row_before(x, y) ==
    Slope_new(i32_add(i32_mul(2, y), 1), i32_mul(2, i32_sub(x, 1)))

Diamond_tile_slope_high(x, y) ==
    Slope_new(i32_add(i32_mul(y, 2), 1), i32_mul(x, 2))
Diamond_tile_slope_low(x, y) ==
    Slope_new(i32_sub(i32_mul(y, 2), 1), i32_mul(x, 2))

\* mutant of Diamond_prev_tile_slope_low: the square tile's far corner
Diamond_prev_tile_slope_low_corner(x, y) ==
    Slope_new(i32_add(i32_mul(y, 2), 1), i32_add(i32_mul(x, 2), 1))

Diamond_prev_tile_slope_low(x, y) ==
    Slope_new(i32_add(i32_mul(y, 2), 1), i32_mul(x, 2))

AdamMilazzo_tile_slope_high(self, x, y) ==
    IF blocks_light(self, x, y)
    THEN IF ~blocks_light(self, x, i32_add(y, 1))
         THEN Slope_new(i32_add(i32_mul(2, y), 1), i32_mul(2, x))
         ELSE Slope_new(i32_add(i32_mul(2, y), 1), i32_sub(i32_mul(2, x), 1))
    ELSE Slope_new(i32_add(i32_mul(2, y), 1), i32_sub(i32_mul(2, x), 1))

AdamMilazzo_tile_slope_high_overflows(self, x, y) ==
    \/ map_pt_overflows(self.origin, self.transform, x, y)
    \/ /\ blocks_light(self, x, y)
       /\ \/ ~add_fits(y, 1)
          \/ map_pt_overflows(self.origin, self.transform, x, i32_add(y, 1))
          \/ /\ ~blocks_light(self, x, i32_add(y, 1))
             /\ corner_overflows(y, 1, x, 0)
          \/ /\ blocks_light(self, x, i32_add(y, 1))
             /\ corner_overflows(y, 1, x, -1)
    \/ /\ ~blocks_light(self, x, y)
       /\ corner_overflows(y, 1, x, -1)

\* mutant of AdamMilazzo_tile_slope_low: the bottom-right corner is never
\* beveled
AdamMilazzo_tile_slope_low_corner(self, x, y) ==
    Slope_new(i32_sub(i32_mul(2, y), 1), i32_add(i32_mul(2, x), 1))

AdamMilazzo_tile_slope_low(self, x, y) ==
    IF blocks_light(self, x, y)
    THEN IF ~blocks_light(self, i32_add(x, 1), y)
         THEN Slope_new(i32_sub(i32_mul(2, y), 1), i32_mul(2, x))
         ELSE Slope_new(i32_sub(i32_mul(2, y), 1), i32_add(i32_mul(2, x), 1))
    ELSE Slope_new(i32_sub(i32_mul(2, y), 1), i32_add(i32_mul(2, x), 1))

AdamMilazzo_tile_slope_low_overflows(self, x, y) ==
    \/ map_pt_overflows(self.origin, self.transform, x, y)
    \/ /\ blocks_light(self, x, y)
       /\ \/ ~add_fits(x, 1)
          \/ map_pt_overflows(self.origin, self.transform, i32_add(x, 1), y)
          \/ /\ ~blocks_light(self, i32_add(x, 1), y)
             /\ corner_overflows(y, -1, x, 0)
          \/ /\ blocks_light(self, i32_add(x, 1), y)
             /\ corner_overflows(y, -1, x, 1)
    \/ /\ ~blocks_light(self, x, y)
       /\ corner_overflows(y, -1, x, 1)

AdamMilazzo_prev_tile_slope_low(self, x, y) ==
    IF ~blocks_light(self, i32_add(x, 1), y)
    THEN Slope_new(i32_mul(2, y), i32_mul(2, x))
    ELSE Slope_new(i32_mul(2, y), i32_add(i32_mul(2, x), 1))

AdamMilazzo_prev_tile_slope_low_overflows(self, x, y) ==
    \/ ~add_fits(x, 1)
    \/ map_pt_overflows(self.origin, self.transform, i32_add(x, 1), y)
    \/ /\ ~blocks_light(self, i32_add(x, 1), y)
       /\ corner_overflows(y, 0, x, 0)
    \/ /\ blocks_light(self, i32_add(x, 1), y)
       /\ corner_overflows(y, 0, x, 1)

\* trait TileShape, dispatched on the implementing type
tile_slope_high(self, x, y) ==
    CASE self.kind = "Square" -> Square_tile_slope_high(x, y)
      [] self.kind = "Diamond" -> Diamond_tile_slope_high(x, y)
      [] self.kind = "AdamMilazzo" -> AdamMilazzo_tile_slope_high(self, x, y)

tile_slope_low(self, x, y) ==
    CASE self.kind = "Square" -> Square_tile_slope_low(x, y)
      [] self.kind = "Diamond" -> Diamond_tile_slope_low(x, y)
      [] self.kind = "AdamMilazzo" -> AdamMilazzo_tile_slope_low(self, x, y)

prev_tile_slope_low(self, x, y) ==
    CASE self.kind = "Square" -> Square_prev_tile_slope_low(x, y)
      [] self.kind = "Diamond" -> Diamond_prev_tile_slope_low(x, y)
      [] self.kind = "AdamMilazzo" -> AdamMilazzo_prev_tile_slope_low(self, x, y)

\* an operation of the trait method overflows
tile_slope_high_overflows(self, x, y) ==
    CASE self.kind = "Square" -> corner_overflows(y, 1, x, -1)
      [] self.kind = "Diamond" -> corner_overflows(y, 1, x, 0)
      [] self.kind = "AdamMilazzo" ->
            AdamMilazzo_tile_slope_high_overflows(self, x, y)

tile_slope_low_overflows(self, x, y) ==
    CASE self.kind = "Square" -> corner_overflows(y, -1, x, 1)
      [] self.kind = "Diamond" -> corner_overflows(y, -1, x, 0)
      [] self.kind = "AdamMilazzo" ->
            AdamMilazzo_tile_slope_low_overflows(self, x, y)

prev_tile_slope_low_overflows(self, x, y) ==
    CASE self.kind = "Square" -> corner_overflows(y, 1, x, 1)
      [] self.kind = "Diamond" -> corner_overflows(y, 1, x, 0)
      [] self.kind = "AdamMilazzo" ->
            AdamMilazzo_prev_tile_slope_low_overflows(self, x, y)

----------------------------------------------------------------------------
(* shadow_cast_2d/algorithm.rs: the recursive scanner _cast_light *)

\* the frame of a call that panicked on an arithmetic overflow ("attempt to
\* add/multiply with overflow"): the process is aborted, nothing runs after it
PanicFrame ==
    [x |-> 0, y |-> 0, y0 |-> 0, slope_high |-> ONE, slope_low |-> ZERO,
     entry_slope_high |-> ONE, prev_opaque |-> FALSE, pc |-> "panic"]

Top(stk) == stk[Len(stk)]
Pop(stk) == SubSeq(stk, 1, Len(stk) - 1)
SetTop(stk, f) == [stk EXCEPT ![Len(stk)] = f]

\* mutant of row_y0: a full-octant row stops one tile short of the axis
row_y0_off_axis(x, slope_low) ==
    IF slope_low.run > 0
    THEN i32_div(i32_sub(i32_mul(i32_sub(i32_mul(2, x), 1), slope_low.rise),
                         slope_low.run),
                 i32_mul(2, slope_low.run))
    ELSE 1

\* mutant of row_y0: the row's far edge 2x+1 in place of its near edge 2x-1
row_y0_far_edge(x, slope_low) ==
    IF slope_low.run > 0
    THEN i32_div(i32_sub(i32_mul(i32_add(i32_mul(2, x), 1), slope_low.rise),
                         slope_low.run),
                 i32_mul(2, slope_low.run))
    ELSE 0

\* y0 of a row (lines 31-35)
row_y0(x, slope_low) ==
    IF slope_low.run > 0
    THEN i32_div(i32_sub(i32_mul(i32_sub(i32_mul(2, x), 1), slope_low.rise),
                         slope_low.run),
                 i32_mul(2, slope_low.run))
    ELSE 0

\* an operation of lines 31-35 overflows
row_y0_overflows(x, slope_low) ==
    /\ slope_low.run > 0
    /\ \/ ~mul_fits(2, x)
       \/ ~sub_fits(i32_mul(2, x), 1)
       \/ ~mul_fits(i32_sub(i32_mul(2, x), 1), slope_low.rise)
       \/ ~sub_fits(i32_mul(i32_sub(i32_mul(2, x), 1), slope_low.rise),
                    slope_low.run)
       \/ ~mul_fits(2, slope_low.run)

\* A callee has returned to the frame on top of stk.  A frame waiting in the
\* call after its loop (line 75) returns in turn; a frame waiting in the call
\* of line 60 executes `prev_opaque = opaque` for its opaque tile and goes on
\* to the next y.
RECURSIVE resume(_)
resume(stk) ==
    IF stk = <<>> THEN stk
    ELSE IF Top(stk).pc = "tail" THEN resume(Pop(stk))
    ELSE SetTop(stk, [Top(stk) EXCEPT !.prev_opaque = TRUE,
                                      !.y = @ - 1,
                                      !.pc = "loop"])

\* mutant of cast_light_enter: the row at distance range is not scanned
cast_light_enter_short(stk, rng, x, slope_high, slope_low) ==
    IF overflow_checks /\ Slope_cmp_overflows(slope_high, slope_low)
    THEN Append(stk, PanicFrame)
    ELSE IF Slope_lt(slope_high, slope_low) \/ x >= rng
    THEN resume(stk)
    ELSE IF overflow_checks /\ row_y0_overflows(x, slope_low)
    THEN Append(stk, PanicFrame)
    ELSE Append(stk, [x |-> x, y |-> x, y0 |-> row_y0(x, slope_low),
                      slope_high |-> slope_high, slope_low |-> slope_low,
                      entry_slope_high |-> slope_high,
                      prev_opaque |-> FALSE, pc |-> "loop"])

\* Entry of _cast_light(.., x, slope_high, slope_low, ..) called with stk the
\* stack of its callers: the early return of line 27, or a new frame at the
\* head of its row loop (lines 31-38); a panic where the comparison of
\* line 27 or y0 overflows.  slope_high is the `mut` parameter the row loop
\* assigns to; entry_slope_high keeps the argument the call was made with.
cast_light_enter(stk, rng, x, slope_high, slope_low) ==
    IF overflow_checks /\ Slope_cmp_overflows(slope_high, slope_low)
    THEN Append(stk, PanicFrame)
    ELSE IF Slope_lt(slope_high, slope_low) \/ x > rng
    THEN resume(stk)
    ELSE IF overflow_checks /\ row_y0_overflows(x, slope_low)
    THEN Append(stk, PanicFrame)
    ELSE Append(stk, [x |-> x, y |-> x, y0 |-> row_y0(x, slope_low),
                      slope_high |-> slope_high, slope_low |-> slope_low,
                      entry_slope_high |-> slope_high,
                      prev_opaque |-> FALSE, pc |-> "loop"])

\* mutant of call_next_row: the callee is handed the caller's own row
call_next_row_same_row(stk, rng, x, slope_high, slope_low) ==
    cast_light_enter(stk, rng, x, slope_high, slope_low)

\* The recursive calls of lines 60-70 and 75-85 from a frame of row x: the
\* argument x + 1 is evaluated, then the callee is entered.
call_next_row(stk, rng, x, slope_high, slope_low) ==
    IF overflow_checks /\ ~add_fits(x, 1)
    THEN Append(stk, PanicFrame)
    ELSE cast_light_enter(stk, rng, i32_add(x, 1), slope_high, slope_low)

\* mutant of after_loop: the next row gets the slope_high the frame was
\* entered with
after_loop_entry_wedge(stk, rng) ==
    LET f == Top(stk)
    IN  IF ~f.prev_opaque
        THEN call_next_row(SetTop(stk, [f EXCEPT !.pc = "tail"]), rng,
                           f.x, f.entry_slope_high, f.slope_low)
        ELSE resume(Pop(stk))

\* mutant of after_loop: the next row is scanned even behind an opaque tile
after_loop_always(stk, rng) ==
    LET f == Top(stk)
    IN  call_next_row(SetTop(stk, [f EXCEPT !.pc = "tail"]), rng,
                      f.x, f.slope_high, f.slope_low)

\* Lines 74-86: the code after the row loop of the frame on top of stk.
after_loop(stk, rng) ==
    LET f == Top(stk)
    IN  IF ~f.prev_opaque
        THEN call_next_row(SetTop(stk, [f EXCEPT !.pc = "tail"]), rng,
                           f.x, f.slope_high, f.slope_low)
        ELSE resume(Pop(stk))

\* mutant of is_opaque: only Some(Opaque) blocks, as in blocks_light
is_opaque_some_only(m, map_pt) == LabeledGraph_get(m, map_pt) = Some(Opaque)

\* `opaque` of line 51
is_opaque(m, map_pt) == LabeledGraph_get(m, map_pt) /= Some(Transparent)

\* mutant of in_range: the range taken as a square, not a disc
in_range_chebyshev(x, y, rng) == x <= rng /\ y <= rng

\* mutant of in_range: tiles at distance exactly range are left out
in_range_strict(x, y, rng) ==
    i32_add(i32_mul(x, x), i32_mul(y, y)) < i32_mul(rng, rng)

\* `in_range` of line 49
in_range(x, y, rng) ==
    i32_add(i32_mul(x, x), i32_mul(y, y)) <= i32_mul(rng, rng)

\* an operation of line 49 overflows
in_range_overflows(x, y, rng) ==
    \/ ~mul_fits(x, x)
    \/ ~mul_fits(y, y)
    \/ ~add_fits(i32_mul(x, x), i32_mul(y, y))
    \/ ~mul_fits(rng, rng)

InLoop == /\ pc = "octants"
          /\ stack /= <<>>
          /\ Top(stack).pc = "loop"
          /\ Top(stack).y >= Top(stack).y0

\* Lines 39-57: in a build with overflow-checks, an operation of the
\* iteration on the tile (x, y) of the top frame overflows; in the order of
\* the code: the tile's slopes, the two comparisons, in_range, map_pt and the
\* slope of line 57.
TileOverflows ==
    /\ overflow_checks
    /\ LET f == Top(stack)
           high == tile_slope_high(tile_shape, f.x, f.y)
           low == tile_slope_low(tile_shape, f.x, f.y)
           map_pt == map_pt_of(origin, transform, f.x, f.y)
       IN  \/ tile_slope_high_overflows(tile_shape, f.x, f.y)
           \/ tile_slope_low_overflows(tile_shape, f.x, f.y)
           \/ Slope_cmp_overflows(low, f.slope_high)
           \/ /\ ~Slope_gt(low, f.slope_high)
              /\ \/ Slope_cmp_overflows(high, f.slope_low)
                 \/ /\ ~Slope_lt(high, f.slope_low)
                    /\ \/ in_range_overflows(f.x, f.y, range)
                       \/ map_pt_overflows(origin, transform, f.x, f.y)
                       \/ /\ f.prev_opaque
                          /\ ~is_opaque(map, map_pt)
                          /\ prev_tile_slope_low_overflows(tile_shape, f.x, f.y)

\* the iteration panics on the overflow
OverflowPanic ==
    /\ InLoop
    /\ TileOverflows
    /\ stack' = Append(stack, PanicFrame)
    /\ UNCHANGED <<map, todo, pc, variant, origin, range, octant, transform,
                   tile_shape, log, hist,
                   overflow_checks, unit>>

\* lines 42-44: the tile lies above the wedge
SkipTile ==
    /\ InLoop
    /\ ~TileOverflows
    /\ LET f == Top(stack)
       IN  /\ Slope_gt(tile_slope_low(tile_shape, f.x, f.y), f.slope_high)
           /\ stack' = SetTop(stack, [f EXCEPT !.y = @ - 1])
    /\ UNCHANGED <<map, todo, pc, variant, origin, range, octant, transform,
                   tile_shape, log, hist,
                   overflow_checks, unit>>

\* lines 45-47 and 74-86: the tile lies below the wedge, the row ends
BreakRow ==
    /\ InLoop
    /\ ~TileOverflows
    /\ LET f == Top(stack)
       IN  /\ ~Slope_gt(tile_slope_low(tile_shape, f.x, f.y), f.slope_high)
           /\ Slope_lt(tile_slope_high(tile_shape, f.x, f.y), f.slope_low)
           /\ stack' = after_loop(stack, range)
    /\ UNCHANGED <<map, todo, pc, variant, origin, range, octant, transform,
                   tile_shape, log, hist,
                   overflow_checks, unit>>

\* mutant of VisitTile: the scan behind a wall is bounded below by the
\* wall's low slope
VisitTile_below_wall ==
    /\ InLoop
    /\ ~TileOverflows
    /\ LET f == Top(stack)
           high == tile_slope_high(tile_shape, f.x, f.y)
           map_pt == map_pt_of(origin, transform, f.x, f.y)
           opaque == is_opaque(map, map_pt)
           sh == IF f.prev_opaque /\ ~opaque
                 THEN prev_tile_slope_low(tile_shape, f.x, f.y)
                 ELSE f.slope_high
       IN  /\ ~Slope_gt(tile_slope_low(tile_shape, f.x, f.y), f.slope_high)
           /\ ~Slope_lt(high, f.slope_low)
           /\ log' = IF in_range(f.x, f.y, range) THEN Append(log, map_pt) ELSE log
           /\ stack' =
                IF ~f.prev_opaque /\ opaque
                THEN call_next_row(
                         SetTop(stack, [f EXCEPT !.slope_high = sh, !.pc = "call"]),
                         range, f.x, sh,
                         tile_slope_low(tile_shape, f.x, f.y))
                ELSE SetTop(stack, [f EXCEPT !.slope_high = sh,
                                             !.prev_opaque = opaque,
                                             !.y = @ - 1])
    /\ UNCHANGED <<map, todo, pc, variant, origin, range, octant, transform,
                   tile_shape, hist,
                   overflow_checks, unit>>

\* mutant of VisitTile: a tile out of range is not looked up and counts as
\* transparent
VisitTile_in_range_only ==
    /\ InLoop
    /\ ~TileOverflows
    /\ LET f == Top(stack)
           high == tile_slope_high(tile_shape, f.x, f.y)
           map_pt == map_pt_of(origin, transform, f.x, f.y)
           opaque == in_range(f.x, f.y, range) /\ is_opaque(map, map_pt)
           sh == IF f.prev_opaque /\ ~opaque
                 THEN prev_tile_slope_low(tile_shape, f.x, f.y)
                 ELSE f.slope_high
       IN  /\ ~Slope_gt(tile_slope_low(tile_shape, f.x, f.y), f.slope_high)
           /\ ~Slope_lt(high, f.slope_low)
           /\ log' = IF in_range(f.x, f.y, range) THEN Append(log, map_pt) ELSE log
           /\ stack' =
                IF ~f.prev_opaque /\ opaque
                THEN call_next_row(
                         SetTop(stack, [f EXCEPT !.slope_high = sh, !.pc = "call"]),
                         range, f.x, sh, high)
                ELSE SetTop(stack, [f EXCEPT !.slope_high = sh,
                                             !.prev_opaque = opaque,
                                             !.y = @ - 1])
    /\ UNCHANGED <<map, todo, pc, variant, origin, range, octant, transform,
                   tile_shape, hist,
                   overflow_checks, unit>>

\* mutant of VisitTile: only points of the map are reported
VisitTile_map_only ==
    /\ InLoop
    /\ ~TileOverflows
    /\ LET f == Top(stack)
           high == tile_slope_high(tile_shape, f.x, f.y)
           map_pt == map_pt_of(origin, transform, f.x, f.y)
           opaque == is_opaque(map, map_pt)
           sh == IF f.prev_opaque /\ ~opaque
                 THEN prev_tile_slope_low(tile_shape, f.x, f.y)
                 ELSE f.slope_high
       IN  /\ ~Slope_gt(tile_slope_low(tile_shape, f.x, f.y), f.slope_high)
           /\ ~Slope_lt(high, f.slope_low)
           /\ log' = IF /\ in_range(f.x, f.y, range)
                        /\ LabeledGraph_get(map, map_pt) /= None
                     THEN Append(log, map_pt) ELSE log
           /\ stack' =
                IF ~f.prev_opaque /\ opaque
                THEN call_next_row(
                         SetTop(stack, [f EXCEPT !.slope_high = sh, !.pc = "call"]),
                         range, f.x, sh, high)
                ELSE SetTop(stack, [f EXCEPT !.slope_high = sh,
                                             !.prev_opaque = opaque,
                                             !.y = @ - 1])
    /\ UNCHANGED <<map, todo, pc, variant, origin, range, octant, transform,
                   tile_shape, hist,
                   overflow_checks, unit>>

\* lines 49-72: the tile is examined
VisitTile ==
    /\ InLoop
    /\ ~TileOverflows
    /\ LET f == Top(stack)
           high == tile_slope_high(tile_shape, f.x, f.y)
           map_pt == map_pt_of(origin, transform, f.x, f.y)
           opaque == is_opaque(map, map_pt)
           sh == IF f.prev_opaque /\ ~opaque
                 THEN prev_tile_slope_low(tile_shape, f.x, f.y)
                 ELSE f.slope_high
       IN  /\ ~Slope_gt(tile_slope_low(tile_shape, f.x, f.y), f.slope_high)
           /\ ~Slope_lt(high, f.slope_low)
           /\ log' = IF in_range(f.x, f.y, range) THEN Append(log, map_pt) ELSE log
           /\ stack' =
                IF ~f.prev_opaque /\ opaque
                THEN call_next_row(
                         SetTop(stack, [f EXCEPT !.slope_high = sh, !.pc = "call"]),
                         range, f.x, sh, high)
                ELSE SetTop(stack, [f EXCEPT !.slope_high = sh,
                                             !.prev_opaque = opaque,
                                             !.y = @ - 1])
    /\ UNCHANGED <<map, todo, pc, variant, origin, range, octant, transform,
                   tile_shape, hist,
                   overflow_checks, unit>>

\* lines 38 and 74-86: the row loop has run out of y
EndRow ==
    /\ pc = "octants"
    /\ stack /= <<>>
    /\ Top(stack).pc = "loop"
    /\ Top(stack).y < Top(stack).y0
    /\ stack' = after_loop(stack, range)
    /\ UNCHANGED <<map, todo, pc, variant, origin, range, octant, transform,
                   tile_shape, log, hist,
                   overflow_checks, unit>>

----------------------------------------------------------------------------
(* shadow_cast_2d/algorithm.rs: the entry points *)

Variants == {"cast_light_2d", "cast_light_2d_diamond", "cast_light_2d_beveled"}

NoTileShape == [kind |-> "unset"]

\* mutant of entry_tile_shape: the diamond entry point scans with square tiles
entry_tile_shape_no_diamond(v, m, o, t) ==
    CASE v = "cast_light_2d" -> SquareTileShape
      [] v = "cast_light_2d_diamond" -> SquareTileShape
      [] v = "cast_light_2d_beveled" -> AdamMilazzoTileShape_new(m, o, t)

\* the tile shape the entry point v uses in the octant with transform t
entry_tile_shape(v, m, o, t) ==
    CASE v = "cast_light_2d" -> SquareTileShape
      [] v = "cast_light_2d_diamond" -> DiamondTileShape
      [] v = "cast_light_2d_beveled" -> AdamMilazzoTileShape_new(m, o, t)

\* callback(origin), the first statement of each entry point
callback_origin(o) == <<o>>

\* mutant of first_row: the scan starts on the origin's own row
first_row_from_zero == 1 - 1

\* the first canonical row handed to the scanner
first_row == 1

\* mutant of first_octant: the loop counter of the previous call is kept
first_octant_stale == octant

\* the first value of `for octant in 0..8`
first_octant == 0

\* lines 111-112 / 148-149 / 186: the next call of the plan starts
CallCastLight ==
    /\ pc = "idle"
    /\ todo /= <<>>
    /\ LET c == Head(todo)
       IN  /\ map' = c.map
           /\ variant' = c.variant
           /\ origin' = c.origin
           /\ range' = c.range
           /\ log' = callback_origin(c.origin)
    /\ todo' = Tail(todo)
    /\ octant' = first_octant
    /\ transform' = ident
    /\ tile_shape' = NoTileShape
    /\ stack' = <<>>
    /\ pc' = "octants"
    /\ UNCHANGED <<hist, overflow_checks, unit>>

\* one iteration of `for octant in 0..8`: the scanner is called on the octant
ScanOctant ==
    /\ pc = "octants"
    /\ stack = <<>>
    /\ octant < 8
    /\ transform' = octant_transform(octant)
    /\ tile_shape' = entry_tile_shape(variant, map, origin, transform')
    /\ stack' = cast_light_enter(<<>>, range, first_row, ONE, ZERO)
    /\ octant' = octant + 1
    /\ UNCHANGED <<map, todo, pc, variant, origin, range, log, hist,
                   overflow_checks, unit>>

\* the points a callback log reports
visible_set(l) == {l[i] : i \in 1..Len(l)}

\* the entry point returns; the caller keeps the set of reported points
ReturnCastLight ==
    /\ pc = "octants"
    /\ stack = <<>>
    /\ octant = 8
    /\ hist' = Append(hist, [map |-> map, variant |-> variant,
                             origin |-> origin, range |-> range,
                             log |-> log, visible |-> visible_set(log)])
    /\ pc' = "idle"
    /\ UNCHANGED <<map, todo, variant, origin, range, octant, transform,
                   tile_shape, stack, log,
                   overflow_checks, unit>>

----------------------------------------------------------------------------
(* Direct calls of single functions, as in the modules' unit tests *)

\* no direct call is made while an entry point is run
\* the panic of an arithmetic operation that overflows, in a build with
\* overflow checks
ArithmeticPanic == [panic |-> "arithmetic overflow"]

NoUnit == [fn |-> "none", args |-> <<>>, result |-> None]

UnitCall(fn, args) == [fn |-> fn, args |-> args, result |-> None]

Pending(fn) == unit.fn = fn /\ unit.result = None

ScannerVars == <<map, todo, pc, variant, origin, range, octant, transform,
                 tile_shape, stack, log, hist, overflow_checks>>

\* octant_transform(octant): the matrix, or the panic
CallOctantTransform ==
    /\ Pending("octant_transform")
    /\ unit' = [unit EXCEPT !.result = Some(octant_transform(unit.args[1]))]
    /\ UNCHANGED ScannerVars

\* as test_octant_transform: the eight matrices and the images of a point
CallOctantTransforms ==
    /\ Pending("octant_transforms")
    /\ unit' = [unit EXCEPT !.result =
          Some([n \in 0..7 |->
                  [m |-> octant_transform(n),
                   image |-> Mat2_mul(octant_transform(n), unit.args[1])]])]
    /\ UNCHANGED ScannerVars

\* as test_slope_comparison: Slope::new(rise, run) and Slope::new(-rise, -run)
CallSlopeNew ==
    /\ Pending("Slope::new")
    /\ LET rise == unit.args[1]
           run == unit.args[2]
       IN  unit' = [unit EXCEPT !.result =
              IF overflow_checks /\ Slope_new_overflows(rise, run)
              THEN Some(ArithmeticPanic)
              ELSE Some([slope |-> Slope_new(rise, run),
                         negated |-> Slope_new(i32_sub(0, rise),
                                               i32_sub(0, run))])]
    /\ UNCHANGED ScannerVars

\* the comparisons among three slopes a, b, c
CallSlopeCmp ==
    /\ Pending("Slope::cmp")
    /\ LET a == unit.args[1]
           b == unit.args[2]
           c == unit.args[3]
       IN  unit' = [unit EXCEPT !.result =
              Some([ab |-> Slope_cmp(a, b), ba |-> Slope_cmp(b, a),
                    bc |-> Slope_cmp(b, c), ac |-> Slope_cmp(a, c),
                    a_lt_b |-> Slope_lt(a, b), a_gt_b |-> Slope_gt(a, b),
                    a_eq_b |-> Slope_eq(a, b)])]
    /\ UNCHANGED ScannerVars

\* the three slopes of tile (x, y) for a stateless tile shape
CallTileSlopes ==
    /\ Pending("TileShape")
    /\ LET shape == unit.args[1]
           x == unit.args[2]
           y == unit.args[3]
       IN  unit' = [unit EXCEPT !.result =
              Some([high |-> tile_slope_high(shape, x, y),
                    low |-> tile_slope_low(shape, x, y),
                    prev_low |-> prev_tile_slope_low(shape, x, y)])]
    /\ UNCHANGED ScannerVars

\* the three slopes of tile (x, y) for the beveled tile shape of an octant,
\* and the two opacity tests made on the tile: blocks_light and `opaque` of
\* line 51 of the scanner
CallBeveledTileSlopes ==
    /\ Pending("AdamMilazzoTileShape")
    /\ LET shape == AdamMilazzoTileShape_new(unit.args[1], unit.args[2],
                                             octant_transform(unit.args[3]))
           x == unit.args[4]
           y == unit.args[5]
       IN  unit' = [unit EXCEPT !.result =
              Some([high |-> tile_slope_high(shape, x, y),
                    low |-> tile_slope_low(shape, x, y),
                    prev_low |-> prev_tile_slope_low(shape, x, y),
                    blocks_light |-> blocks_light(shape, x, y),
                    opaque |-> is_opaque(shape.map,
                                         map_pt_of(shape.origin,
                                                   shape.transform, x, y))])]
    /\ UNCHANGED ScannerVars

----------------------------------------------------------------------------
(* The checked inputs: grids and the calls made on them *)

Cells(w, h) == {Point_new(x, y) : x \in 0..(w - 1), y \in 0..(h - 1)}

\* the w x h grid that is Opaque exactly on walls (row-major data, index y*w+x)
WallGrid(w, h, walls) ==
    from_iter([i \in 1..(w * h) |->
                  IF Point_new((i - 1) % w, (i - 1) \div w) \in walls
                  THEN Opaque ELSE Transparent],
              w, h)

Call(v, o, r) == [variant |-> v, origin |-> o, range |-> r]

\* the call c made on the map m
CallOn(m, c) ==
    [map |-> m, variant |-> c.variant, origin |-> c.origin, range |-> c.range]

\* a test: the calls made, in order, on the map m
Plan(m, calls) ==
    [map |-> m, calls |-> [i \in 1..Len(calls) |-> CallOn(m, calls[i])]]

\* generic family: every grid of side GridSide with at most MaxWalls opaque
\* cells, each entry point, every origin in or one step outside the grid,
\* every range up to MaxRange
GenericGrids ==
    {WallGrid(GridSide, GridSide, ws) :
        ws \in {s \in SUBSET Cells(GridSide, GridSide) : Cardinality(s) <= MaxWalls}}

GenericOrigins == {Point_new(x, y) : x \in (-1)..GridSide, y \in (-1)..GridSide}

GenericPlans ==
    {Plan(m, <<Call(v, o, r)>>) :
        m \in GenericGrids, v \in Variants, o \in GenericOrigins, r \in 0..MaxRange}

\* the same call made twice on a generic grid, from an origin in the grid
RepeatPlans ==
    {Plan(m, <<Call(v, o, MaxRange), Call(v, o, MaxRange)>>) :
        m \in GenericGrids, v \in Variants, o \in Cells(GridSide, GridSide)}

\* the side x side grid that agrees with m on the cells of m and is Opaque on
\* every other cell, where m itself answers None
OpaqueBorder(m, side) ==
    from_iter([i \in 1..(side * side) |->
                  LET pt == Point_new((i - 1) % side, (i - 1) \div side)
                  IN  IF Grid2D_get(m, pt) = None THEN Opaque
                                                  ELSE Grid2D_get(m, pt)[1]],
              side, side)

\* wide enough to hold every tile a generic call can examine right of or
\* below the grid
BorderSide == GridSide + MaxRange + 1

\* the same square or diamond call on a generic grid and on that grid
\* surrounded by opaque cells
OpaqueBorderPlans ==
    {[map |-> m,
      calls |-> <<CallOn(m, Call(v, o, r)),
                  CallOn(OpaqueBorder(m, BorderSide), Call(v, o, r))>>] :
        m \in GenericGrids, v \in {"cast_light_2d", "cast_light_2d_diamond"},
        o \in GenericOrigins, r \in 0..MaxRange}

\* calls at the limits of i32: the largest range whose square fits and the
\* next one, the largest range, and origins on the border of the i32 plane
ExtremeCalls ==
    {Call(v, Point_new(0, 0), r) :
        v \in Variants, r \in {46340, 46341, I32_MAX}}
    \cup {Call(v, o, 1) :
        v \in Variants,
        o \in {Point_new(I32_MAX, I32_MAX), Point_new(I32_MIN, 0),
               Point_new(0, I32_MAX - 1)}}

ExtremePlans ==
    {Plan(m, <<c>>) : m \in GenericGrids, c \in ExtremeCalls}

\* all-transparent rectangles (Grid2D::new)
TransparentGrids ==
    {Grid2D_new(GridSide, h, Transparent) : h \in (GridSide - 1)..GridSide}

\* the cells of a grid in the order of their index
CellSeq(m) ==
    [i \in 1..(m.width * m.height) |->
        Point_new((i - 1) % m.width, (i - 1) \div m.width)]

\* as test_fov_symmetric_property: one call from every cell, the same range
SymmetryPlans ==
    {Plan(m, [i \in 1..(m.width * m.height) |-> Call(v, CellSeq(m)[i], r)]) :
        m \in TransparentGrids, v \in Variants, r \in 0..MaxRange}

\* origins in the grid and up to two steps outside it
RadiusOrigins ==
    {Point_new(x, y) : x \in (-2)..(GridSide + 1), y \in (-2)..(GridSide + 1)}

\* as test_fov_radius_limits: one origin, the ranges 0, 1, .. in turn
RadiusPlans ==
    {Plan(m, [i \in 1..(MaxRange + 2) |-> Call(v, o, i - 1)]) :
        m \in TransparentGrids, v \in Variants, o \in RadiusOrigins}

\* a scenario calls the three entry points in turn, as the unit tests do
AllVariants(o, r) ==
    <<Call("cast_light_2d", o, r), Call("cast_light_2d_diamond", o, r),
      Call("cast_light_2d_beveled", o, r)>>

\* test_diagonal_wall
DiagonalWallGrid == WallGrid(6, 6, {Point_new(i, i) : i \in 0..5})
DiagonalWallPlan == Plan(DiagonalWallGrid, AllVariants(Point_new(0, 5), 10))

\* test_different_algorithms
DifferentAlgorithmsGrid ==
    WallGrid(8, 5, {Point_new(6, 0), Point_new(6, 1), Point_new(6, 2),
                    Point_new(6, 3), Point_new(6, 4), Point_new(2, 1),
                    Point_new(4, 3)})
DifferentAlgorithmsPlan ==
    Plan(DifferentAlgorithmsGrid, AllVariants(Point_new(0, 1), 100))

\* the occlusion scenario: a wall with a gap at (2,4), and the gap sealed
GapWallGrid == WallGrid(5, 5, {Point_new(2, y) : y \in 0..3})
SealedWallGrid == WallGrid(5, 5, {Point_new(2, y) : y \in 0..4})
OcclusionPlans ==
    {Plan(m, AllVariants(Point_new(0, 2), 10)) : m \in {GapWallGrid, SealedWallGrid}}

\* test_cast_light_basic
BasicGrid == Grid2D_new(10, 10, Transparent)
BasicPlan == Plan(BasicGrid, AllVariants(Point_new(5, 5), 3))

\* test_cast_light_with_wall
WithWallGrid == WallGrid(10, 10, {Point_new(5, 7)})
WithWallPlan == Plan(WithWallGrid, AllVariants(Point_new(5, 5), 5))

\* test_fov_radius_limits: radii 1, 3, 5, 8, each with the radius below it
RadiusLimitsGrid == Grid2D_new(20, 20, Transparent)
RadiusLimitsPlan ==
    Plan(RadiusLimitsGrid,
         [i \in 1..7 |-> Call("cast_light_2d", Point_new(10, 10),
                               <<1, 3, 2, 5, 4, 8, 7>>[i])])

\* test_fov_symmetric_property
SymmetricPropertyGrid == Grid2D_new(15, 15, Transparent)
SymmetricPropertyPlan ==
    Plan(SymmetricPropertyGrid,
         [i \in 1..5 |-> Call("cast_light_2d",
                               <<Point_new(3, 3), Point_new(7, 7), Point_new(10, 3),
                                 Point_new(3, 10), Point_new(10, 10)>>[i],
                               8)])

\* an all-transparent grid holding the whole disc of every range checked,
\* scanned from its centre by each entry point
DiscGrid == Grid2D_new(2 * MaxRange + 3, 2 * MaxRange + 3, Transparent)
DiscPlans ==
    {Plan(DiscGrid, <<Call(v, Point_new(MaxRange + 1, MaxRange + 1), r)>>) :
        v \in Variants, r \in 0..(MaxRange + 1)}

ScenarioPlans ==
    {DiagonalWallPlan, DifferentAlgorithmsPlan, BasicPlan, WithWallPlan,
     RadiusLimitsPlan, SymmetricPropertyPlan} \cup OcclusionPlans

Plans ==
    GenericPlans \cup RepeatPlans \cup SymmetryPlans \cup RadiusPlans
        \cup ScenarioPlans \cup OpaqueBorderPlans \cup DiscPlans

\* inputs of the direct calls: coordinates and slope components up to
\* UnitMax in absolute value, octant numbers of u32 up to MaxOctantArg
UnitInts == (-UnitMax)..UnitMax
UnitPoints == {Point_new(a, b) : a \in UnitInts, b \in UnitInts}

\* the slopes Slope::new gives, the two constants, and the unreduced 2/4
UnitSlopes ==
    {Slope_new(rise, run) : rise \in UnitInts, run \in UnitInts}
        \cup {ONE, ZERO, Slope_new(2, 4)}

\* grids in which a wall can have a wall for neighbour
UnitGrids ==
    {WallGrid(GridSide, GridSide, ws) :
        ws \in {w \in SUBSET Cells(GridSide, GridSide) :
                   Cardinality(w) <= MaxWalls + 1}}

UnitCalls ==
    {UnitCall("octant_transform", <<n>>) : n \in 0..MaxOctantArg \cup {I32_MAX}}
    \cup {UnitCall("octant_transforms", <<pt>>) : pt \in UnitPoints}
    \cup {UnitCall("Slope::new", <<rise, run>>) :
              rise \in UnitInts, run \in UnitInts \cup {I32_MIN}}
    \cup {UnitCall("Slope::cmp", <<a, b, c>>) :
              a \in UnitSlopes, b \in UnitSlopes, c \in UnitSlopes}
    \cup {UnitCall("TileShape", <<shape, x, y>>) :
              shape \in {SquareTileShape, DiamondTileShape},
              x \in 1..(UnitMax + 1), y \in UnitInts}
    \cup {UnitCall("AdamMilazzoTileShape", <<m, o, n, x, y>>) :
              m \in UnitGrids, o \in Cells(GridSide, GridSide), n \in 0..7,
              x \in 1..MaxRange, y \in 0..MaxRange}

\* the state before the first call of plan p in a build with or without
\* overflow-checks
InitPlan(p, checks) ==
    /\ map = p.map
    /\ todo = p.calls
    /\ pc = "idle"
    /\ variant = "cast_light_2d"
    /\ origin = Point_new(0, 0)
    /\ range = 0
    /\ octant = 0
    /\ transform = ident
    /\ tile_shape = NoTileShape
    /\ stack = <<>>
    /\ log = <<>>
    /\ hist = <<>>
    /\ overflow_checks = checks
    /\ unit = NoUnit

\* The calls of Plans stay far from the limits of i32, where both builds
\* compute the same: they are explored in the build with overflow-checks.
Init == \E p \in Plans : InitPlan(p, TRUE)

Next ==
    \/ CallCastLight
    \/ ScanOctant
    \/ SkipTile
    \/ BreakRow
    \/ VisitTile
    \/ EndRow
    \/ ReturnCastLight

Spec == Init /\ [][Next]_vars

\* The calls at the limits of i32, in both builds.
InitI32 == \E p \in ExtremePlans : \E checks \in BOOLEAN : InitPlan(p, checks)

NextI32 ==
    \/ CallCastLight
    \/ ScanOctant
    \/ SkipTile
    \/ BreakRow
    \/ VisitTile
    \/ EndRow
    \/ OverflowPanic
    \/ ReturnCastLight

SpecI32 == InitI32 /\ [][NextI32]_vars

\* A direct call of one function; no entry point is run.
InitUnit ==
    /\ \E u \in UnitCalls : unit = u
    /\ map = Grid2D_new(1, 1, Transparent)
    /\ todo = <<>>
    /\ pc = "idle"
    /\ variant = "cast_light_2d"
    /\ origin = Point_new(0, 0)
    /\ range = 0
    /\ octant = 0
    /\ transform = ident
    /\ tile_shape = NoTileShape
    /\ stack = <<>>
    /\ log = <<>>
    /\ hist = <<>>
    /\ overflow_checks \in IF unit.fn = "Slope::new" THEN BOOLEAN ELSE {TRUE}

NextUnit ==
    \/ CallOctantTransform
    \/ CallOctantTransforms
    \/ CallSlopeNew
    \/ CallSlopeCmp
    \/ CallTileSlopes
    \/ CallBeveledTileSlopes

SpecUnit == InitUnit /\ [][NextUnit]_vars

----------------------------------------------------------------------------
(* Properties *)

SqDist(p, q) == (p.x - q.x) * (p.x - q.x) + (p.y - q.y) * (p.y - q.y)

InGrid(m, p) == Grid2D_index(m, p) /= None

GridCells(m) == Cells(m.width, m.height)

NoOpaque(m) == \A p \in GridCells(m) : Grid2D_get(m, p) = Some(Transparent)

Started == pc = "octants" \/ hist /= <<>>

Finished == pc = "idle" /\ hist /= <<>>

Count(l, p) == Cardinality({i \in 1..Len(l) : l[i] = p})

\* C1: in every call of each entry point, whatever the map, the origin
\* (opaque, transparent or outside the map) and the range, the first point
\* passed to callback is the origin, and the origin is passed exactly once:
\* the octant scans never report it again.
C1_OriginFirstAndOnce ==
    Started => /\ Len(log) >= 1
               /\ log[1] = origin
               /\ Count(log, origin) = 1

\* a call from an origin that is not a transparent cell has finished and has
\* reported other points after the origin
C1_Witness ==
    /\ Finished
    /\ Len(log) > 1
    /\ LabeledGraph_get(map, origin) /= Some(Transparent)

\* C2: every point passed to callback lies within the range disc:
\* (p.x-origin.x)^2 + (p.y-origin.y)^2 <= range^2.
C2_RangeBound ==
    \A i \in 1..Len(log) : SqDist(log[i], origin) <= range * range

\* the scanner is about to examine a tile of the wedge that lies outside the
\* disc, after having reported points of the disc
C2_Witness ==
    /\ InLoop
    /\ Len(log) > 1
    /\ LET f == Top(stack)
       IN  /\ ~Slope_gt(tile_slope_low(tile_shape, f.x, f.y), f.slope_high)
           /\ ~Slope_lt(tile_slope_high(tile_shape, f.x, f.y), f.slope_low)
           /\ f.x * f.x + f.y * f.y > range * range

\* C3: on an all-transparent rectangular map, from any origin inside the map
\* and for any range, cast_light_2d reports every point of the map within the
\* range disc, also when the disc reaches past the border of the map.
C3_TransparentMapComplete ==
    (pc = "idle" /\ NoOpaque(map)) =>
        \A i \in 1..Len(hist) :
            (hist[i].variant = "cast_light_2d" /\ InGrid(map, hist[i].origin)) =>
                \A p \in GridCells(map) :
                    SqDist(p, hist[i].origin) <= hist[i].range * hist[i].range
                        => p \in hist[i].visible

\* a square-variant call on an all-transparent map has finished whose disc
\* reaches past the border and holds map points other than the origin
C3_Witness ==
    /\ Finished
    /\ NoOpaque(map)
    /\ \E i \in 1..Len(hist) :
          /\ hist[i].variant = "cast_light_2d"
          /\ InGrid(map, hist[i].origin)
          /\ hist[i].range >= 2
          /\ ~InGrid(map, Point_add(hist[i].origin, Point_new(hist[i].range, 0)))
          /\ \E p \in GridCells(map) :
                /\ SqDist(p, hist[i].origin) > 1
                /\ p \in hist[i].visible

\* C4: on a map with no opaque tile, visibility is symmetric for each
\* variant: for map points A and B and any range, B is reported from origin A
\* if and only if A is reported from origin B.
C4_EmptyMapSymmetry ==
    (pc = "idle" /\ NoOpaque(map)) =>
        \A i, j \in 1..Len(hist) :
            ( /\ hist[i].variant = hist[j].variant
              /\ hist[i].range = hist[j].range
              /\ InGrid(map, hist[i].origin)
              /\ InGrid(map, hist[j].origin) ) =>
                (hist[j].origin \in hist[i].visible
                    <=> hist[i].origin \in hist[j].visible)

\* two calls of one variant with the same range from different points of an
\* all-transparent map have finished, and each reported the other's origin
C4_Witness ==
    /\ Finished
    /\ NoOpaque(map)
    /\ \E i, j \in 1..Len(hist) :
          /\ hist[i].variant = hist[j].variant
          /\ hist[i].range = hist[j].range
          /\ hist[i].origin /= hist[j].origin
          /\ InGrid(map, hist[i].origin)
          /\ InGrid(map, hist[j].origin)
          /\ hist[j].origin \in hist[i].visible
          /\ hist[i].origin \in hist[j].visible

\* some tile of the map lies in the ring r^2 < d <= (r+1)^2 around o
NewTilesInRange(m, o, r) ==
    \E p \in GridCells(m) :
        /\ r * r < SqDist(p, o)
        /\ SqDist(p, o) <= (r + 1) * (r + 1)

\* C5 as stated: for a fixed all-transparent map and origin, the visible set
\* for range r is a subset of the visible set for range r+1, and a strict
\* subset whenever some map tile has squared distance d with
\* r^2 < d <= (r+1)^2.
C5_MonotonicRangeAnyOrigin ==
    (pc = "idle" /\ NoOpaque(map)) =>
        \A i, j \in 1..Len(hist) :
            ( /\ hist[i].variant = hist[j].variant
              /\ hist[i].origin = hist[j].origin
              /\ hist[j].range = hist[i].range + 1 ) =>
                /\ hist[i].visible \subseteq hist[j].visible
                /\ NewTilesInRange(map, hist[i].origin, hist[i].range)
                      => hist[i].visible /= hist[j].visible

\* C5, amended: for a fixed all-transparent map and origin, the visible set
\* for range r is a subset of the visible set for range r+1; it is a strict
\* subset whenever the origin lies inside the map and some map tile has
\* squared distance d with r^2 < d <= (r+1)^2.
C5_MonotonicRange ==
    (pc = "idle" /\ NoOpaque(map)) =>
        \A i, j \in 1..Len(hist) :
            ( /\ hist[i].variant = hist[j].variant
              /\ hist[i].origin = hist[j].origin
              /\ hist[j].range = hist[i].range + 1 ) =>
                /\ hist[i].visible \subseteq hist[j].visible
                /\ ( /\ InGrid(map, hist[i].origin)
                      /\ NewTilesInRange(map, hist[i].origin, hist[i].range) )
                      => hist[i].visible /= hist[j].visible

\* calls with ranges r and r+1 from one origin inside an all-transparent map
\* have finished, the ring between the two ranges holds a map tile, and the
\* smaller range already reported points other than the origin
C5_Witness ==
    /\ Finished
    /\ NoOpaque(map)
    /\ \E i, j \in 1..Len(hist) :
          /\ hist[i].variant = hist[j].variant
          /\ hist[i].origin = hist[j].origin
          /\ hist[j].range = hist[i].range + 1
          /\ InGrid(map, hist[i].origin)
          /\ NewTilesInRange(map, hist[i].origin, hist[i].range)
          /\ Cardinality(hist[i].visible) > 1
          /\ hist[i].visible /= hist[j].visible

AxisUnits == {Point_new(1, 0), Point_new(-1, 0), Point_new(0, 1), Point_new(0, -1)}

AlongAxis(o, e, k) == Point_new(o.x + k * e.x, o.y + k * e.y)

\* C7: in the square variant, on any map, if the tile at origin + d*e is not
\* transparent (d >= 1, e an axis unit vector), no point origin + k*e with
\* k > d is passed to callback.
C7_AxisWallHidesBehind ==
    variant = "cast_light_2d" =>
        \A e \in AxisUnits : \A d \in 1..range :
            LabeledGraph_get(map, AlongAxis(origin, e, d)) /= Some(Transparent) =>
                \A i \in 1..Len(log) : \A k \in (d + 1)..range :
                    log[i] /= AlongAxis(origin, e, k)

\* a square-variant call has finished on a map with an opaque cell on an axis
\* of the origin; the tile right behind it is a transparent map tile within
\* range, and a tile beside that one was reported
C7_Witness ==
    /\ Finished
    /\ variant = "cast_light_2d"
    /\ \E e \in AxisUnits : \E d \in 1..range :
          /\ d + 1 <= range
          /\ LabeledGraph_get(map, AlongAxis(origin, e, d)) = Some(Opaque)
          /\ LabeledGraph_get(map, AlongAxis(origin, e, d + 1)) = Some(Transparent)
          /\ \E i \in 1..Len(log) :
                SqDist(log[i], AlongAxis(origin, e, d + 1)) = 1

\* a finished call of entry point v reported p
Reported(v, p) ==
    \E i \in 1..Len(hist) : hist[i].variant = v /\ p \in hist[i].visible

Called(v) == \E i \in 1..Len(hist) : hist[i].variant = v

\* C8 as stated: on the 5x5 map with opaque cells (2,0)..(2,3), origin (0,2)
\* and a range covering the map, cast_light_2d reports (4,2); once (2,4) is
\* opaque too, (4,2) is not reported.
C8_OcclusionDependsOnGap ==
    (pc = "idle" /\ Called("cast_light_2d")) =>
        /\ map = GapWallGrid => Reported("cast_light_2d", Point_new(4, 2))
        /\ map = SealedWallGrid => ~Reported("cast_light_2d", Point_new(4, 2))

\* C8, amended: on the 5x5 map with opaque cells (2,0)..(2,3), origin (0,2)
\* and a range covering the map, cast_light_2d does not report (4,2), which
\* lies behind the opaque cell (2,2) on the origin's row, although the gap
\* cell (2,4) is reported; once (2,4) is opaque too, (4,2) is still not
\* reported.
C8_OcclusionBehindWall ==
    (pc = "idle" /\ Called("cast_light_2d")) =>
        /\ map = GapWallGrid =>
              /\ ~Reported("cast_light_2d", Point_new(4, 2))
              /\ Reported("cast_light_2d", Point_new(2, 4))
        /\ map = SealedWallGrid => ~Reported("cast_light_2d", Point_new(4, 2))

\* the square-variant call on the map with the gap has finished and has
\* reported the wall cell (2,2) in front of the target
C8_Witness ==
    /\ pc = "idle"
    /\ map = GapWallGrid
    /\ Reported("cast_light_2d", Point_new(2, 2))

\* C9: on the 6x6 map with the opaque diagonal (0,0)..(5,5), origin (0,5) and
\* range 10: cast_light_2d does not report (5,2); cast_light_2d_diamond
\* reports (5,2) and (5,0); cast_light_2d_beveled reports (5,0) but not (5,2).
C9_DiagonalWallDivergence ==
    (pc = "idle" /\ map = DiagonalWallGrid) =>
        /\ Called("cast_light_2d") =>
              ~Reported("cast_light_2d", Point_new(5, 2))
        /\ Called("cast_light_2d_diamond") =>
              /\ Reported("cast_light_2d_diamond", Point_new(5, 2))
              /\ Reported("cast_light_2d_diamond", Point_new(5, 0))
        /\ Called("cast_light_2d_beveled") =>
              /\ Reported("cast_light_2d_beveled", Point_new(5, 0))
              /\ ~Reported("cast_light_2d_beveled", Point_new(5, 2))

\* the three entry points have all been run on the diagonal-wall map
C9_Witness ==
    /\ pc = "idle"
    /\ map = DiagonalWallGrid
    /\ \A v \in Variants : Called(v)
    /\ \A i \in 1..Len(hist) :
          hist[i].origin = Point_new(0, 5) /\ hist[i].range = 10

\* C10: on the 8x5 map of test_different_algorithms, with origin (0,1) and
\* range 100, the visible sets of the three entry points are pairwise
\* different.
C10_AlgorithmsDiffer ==
    (pc = "idle" /\ map = DifferentAlgorithmsGrid) =>
        \A i, j \in 1..Len(hist) :
            hist[i].variant /= hist[j].variant =>
                hist[i].visible /= hist[j].visible

\* the three entry points have all been run on that map
C10_Witness ==
    /\ pc = "idle"
    /\ map = DifferentAlgorithmsGrid
    /\ \A v \in Variants : Called(v)
    /\ \A i \in 1..Len(hist) :
          hist[i].origin = Point_new(0, 1) /\ hist[i].range = 100

\* the maps of two finished calls differ only where the first answers None and
\* the second Some(Opaque)
NoneMadeOpaque(m1, m2) ==
    /\ m1 /= m2
    /\ \A p \in GridCells(m1) \cup GridCells(m2) :
          \/ Grid2D_get(m1, p) = Grid2D_get(m2, p)
          \/ /\ Grid2D_get(m1, p) = None
             /\ Grid2D_get(m2, p) = Some(Opaque)

\* C11: for the square and diamond variants, a map that answers None on a set
\* of points and a map that answers Some(Opaque) on exactly those points
\* (identical elsewhere) give the identical sequence of callback invocations
\* for the same origin and range.
C11_NoneScansAsOpaque ==
    pc = "idle" =>
        \A i, j \in 1..Len(hist) :
            ( /\ hist[i].variant \in {"cast_light_2d", "cast_light_2d_diamond"}
              /\ hist[i].variant = hist[j].variant
              /\ hist[i].origin = hist[j].origin
              /\ hist[i].range = hist[j].range
              /\ NoneMadeOpaque(hist[i].map, hist[j].map) ) =>
                hist[i].log = hist[j].log

\* the same call has finished on two such maps, and it reported a point that
\* is None on the first map and Some(Opaque) on the second, and other points
C11_Witness ==
    /\ pc = "idle"
    /\ \E i, j \in 1..Len(hist) :
          /\ hist[i].variant = hist[j].variant
          /\ hist[i].origin = hist[j].origin
          /\ hist[i].range = hist[j].range
          /\ NoneMadeOpaque(hist[i].map, hist[j].map)
          /\ Len(hist[j].log) > 2
          /\ \E k \in 1..Len(hist[j].log) :
                /\ Grid2D_get(hist[i].map, hist[j].log[k]) = None
                /\ Grid2D_get(hist[j].map, hist[j].log[k]) = Some(Opaque)

\* a call has panicked
Panicked == stack /= <<>> /\ Top(stack).pc = "panic"

\* C12: for every origin, every range >= 0 representable as i32 and every
\* opacity layout, each entry point completes without panicking:
\* octant_transform is only called with indices 0..=7, and no i32 operation
\* of the scan overflows.
C12_NeverPanics ==
    /\ transform /= Panic
    /\ ~Panicked

\* the active frames are the rows 1, 2, 3, .. and none lies beyond the range
FramesAreRows ==
    /\ \A i \in 1..Len(stack) : stack[i].x = i
    /\ Len(stack) <= range

\* what a frame has left to do: the iterations of its row loop not yet
\* finished, counted twice, less one while it waits for the call of line 60;
\* nothing once it waits for the call of line 75
FrameRank(f) ==
    IF f.pc = "tail" THEN 0
    ELSE 2 * (f.y - f.y0 + 2) + (IF f.pc = "loop" THEN 1 ELSE 0)

\* what the program has left to do, most significant first: the calls not yet
\* started, the call in progress, its octants not yet started, and the active
\* frames from the outermost to the innermost
Rank(todo_, pc_, octant_, stack_) ==
    <<Len(todo_), IF pc_ = "octants" THEN 1 ELSE 0, 8 - octant_>>
        \o [i \in 1..Len(stack_) |-> FrameRank(stack_[i])]

\* lexicographic order on sequences of natural numbers
LexLess(s, t) ==
    \E i \in 1..Len(t) :
        /\ \A j \in 1..(i - 1) : j <= Len(s) /\ s[j] = t[j]
        /\ i > Len(s) \/ s[i] < t[i]

\* C13: every call of an entry point terminates, and the recursion is
\* bounded: the active scanner frames of an octant have x = 1, 2, 3, ..,
\* one more per nesting level, and a frame with x > range returns before it
\* examines a tile, so that at most `range` frames are on the stack.
\* Termination: every step lowers Rank in the lexicographic order, which is
\* well-founded on sequences of naturals of bounded length.
C13_TerminatesWithBoundedStack ==
    /\ []FramesAreRows
    /\ [][LexLess(Rank(todo', pc', octant', stack'),
                  Rank(todo, pc, octant, stack))]_vars

\* the recursion has reached its greatest depth: a frame for each row up to
\* the range is active
C13_Witness ==
    /\ pc = "octants"
    /\ range >= 2
    /\ Len(stack) = range
    /\ Top(stack).pc = "loop"

Returned(fn) == unit.fn = fn /\ unit.result /= None

IsMat2(m) == DOMAIN m = {"col1", "col2"}

\* C14: octant_transform returns a matrix for every index in 0..=7 and panics
\* with "Invalid octant number" for every other index; it never returns a
\* value for an invalid index.
C14_InvalidOctantPanics ==
    Returned("octant_transform") =>
        LET n == unit.args[1]
            r == unit.result[1]
        IN  /\ n \in 0..7 => IsMat2(r)
            /\ n \notin 0..7 => r = Panic /\ ~IsMat2(r)

\* octant_transform(8) has been called, as in test_invalid_octant, and has
\* panicked
C14_Witness ==
    /\ Returned("octant_transform")
    /\ unit.args[1] = 8
    /\ unit.result[1] = Panic

\* C15: the 8 octant transforms are pairwise distinct, octant 0 is the
\* identity, every entry is -1, 0 or 1, each preserves x^2 + y^2 of every
\* point, and a point (a, b) with a /= 0, b /= 0, |a| /= |b| has 8 pairwise
\* distinct images.
C15_OctantsAreSymmetries ==
    Returned("octant_transforms") =>
        LET pt == unit.args[1]
            r == unit.result[1]
        IN  /\ \A i, j \in 0..7 : i /= j => r[i].m /= r[j].m
            /\ r[0].image = pt
            /\ \A i \in 0..7 :
                  /\ {r[i].m.col1.x, r[i].m.col1.y, r[i].m.col2.x, r[i].m.col2.y}
                        \subseteq {-1, 0, 1}
                  /\ r[i].image.x * r[i].image.x + r[i].image.y * r[i].image.y
                        = pt.x * pt.x + pt.y * pt.y
            /\ (pt.x /= 0 /\ pt.y /= 0 /\ pt.x * pt.x /= pt.y * pt.y) =>
                  \A i, j \in 0..7 : i /= j => r[i].image /= r[j].image

\* the eight transforms have been applied to the point (3, 1) of
\* test_octant_transform
C15_Witness ==
    /\ Returned("octant_transforms")
    /\ unit.args[1] = Point_new(3, 1)
    /\ unit.result[1][2].image = Point_new(-1, 3)

Reverse(o) ==
    CASE o = "Less" -> "Greater"
      [] o = "Greater" -> "Less"
      [] o = "Equal" -> "Equal"

\* C16: the comparison operators on Slope are a total order over all values
\* obtainable from Slope::new and the constants ONE and ZERO: for all a, b, c
\* exactly one of a < b, a > b, cmp(a, b) = Equal holds, cmp(a, b) is the
\* reverse of cmp(b, a), and a <= b and b <= c imply a <= c.
C16_SlopeTotalOrder ==
    Returned("Slope::cmp") =>
        LET r == unit.result[1]
        IN  /\ Cardinality({k \in 1..3 :
                    <<r.a_lt_b, r.a_gt_b, r.ab = "Equal">>[k]}) = 1
            /\ r.ab = Reverse(r.ba)
            /\ (r.ab /= "Greater" /\ r.bc /= "Greater") => r.ac /= "Greater"

\* C17: Slope::new(rise, run) yields a slope with run >= 0: both components
\* are negated if run < 0 and kept otherwise; hence
\* Slope::new(r, n) = Slope::new(-r, -n) for all r and all n /= 0.
C17_SlopeNewNormalizes ==
    Returned("Slope::new") =>
        LET rise == unit.args[1]
            run == unit.args[2]
            r == unit.result[1]
        IN  /\ "slope" \in DOMAIN r
            /\ r.slope.run >= 0
            /\ run < 0 => r.slope = [rise |-> -rise, run |-> -run]
            /\ run >= 0 => r.slope = [rise |-> rise, run |-> run]
            /\ run /= 0 => r.slope = r.negated

\* C18: the named slope constants are ONE = 1/1 (rise 1, run 1) and
\* ZERO = 0/1 (rise 0, run 1), and every octant scan starts with
\* slope_high = ONE and slope_low = ZERO.
C18_SlopeConstants ==
    (pc = "octants" /\ Len(stack) = 1 /\ stack[1].y = 1
        /\ stack[1].pc = "loop") =>
        /\ stack[1].slope_high = [rise |-> 1, run |-> 1]
        /\ stack[1].slope_low = [rise |-> 0, run |-> 1]
        /\ ONE = stack[1].slope_high
        /\ ZERO = stack[1].slope_low

\* C19: for x >= 1 and any y the stateless tile shapes return exactly:
\* square high (2y+1)/(2x-1), low (2y-1)/(2x+1), prev_low (2y+1)/(2x+1);
\* diamond high (2y+1)/(2x), low (2y-1)/(2x), prev_low (2y+1)/(2x); neither
\* reads the map.
C19_StatelessTileSlopes ==
    Returned("TileShape") =>
        LET shape == unit.args[1]
            x == unit.args[2]
            y == unit.args[3]
            r == unit.result[1]
        IN  /\ "map" \notin DOMAIN shape
            /\ shape = SquareTileShape =>
                  /\ r.high = [rise |-> 2 * y + 1, run |-> 2 * x - 1]
                  /\ r.low = [rise |-> 2 * y - 1, run |-> 2 * x + 1]
                  /\ r.prev_low = [rise |-> 2 * y + 1, run |-> 2 * x + 1]
            /\ shape = DiamondTileShape =>
                  /\ r.high = [rise |-> 2 * y + 1, run |-> 2 * x]
                  /\ r.low = [rise |-> 2 * y - 1, run |-> 2 * x]
                  /\ r.prev_low = [rise |-> 2 * y + 1, run |-> 2 * x]

\* the slopes of the square tile (2, 1) have been computed: 3/3, 1/5, 3/5
C19_Witness ==
    /\ Returned("TileShape")
    /\ unit.args = <<SquareTileShape, 2, 1>>
    /\ unit.result[1].low = [rise |-> 1, run |-> 5]

\* the opacity the map holds at the world point of canonical (cx, cy):
\* origin + transform * (cy, cx)
OpacityAt(m, o, n, cx, cy) ==
    LET t == octant_transform(n)
    IN  Grid2D_get(m, [x |-> o.x + t.col1.x * cy + t.col2.x * cx,
                       y |-> o.y + t.col1.y * cy + t.col2.y * cx])

LastCall == hist[Len(hist)]

\* the map of call h holds every point within range of its origin
DiscInMap(h) ==
    \A dx \in (-h.range)..h.range : \A dy \in (-h.range)..h.range :
        dx * dx + dy * dy <= h.range * h.range =>
            InGrid(h.map, Point_new(h.origin.x + dx, h.origin.y + dy))

OnSeam(dx, dy) ==
    dx = 0 \/ dy = 0 \/ dx = dy \/ dx = -dy

\* C21: on an all-transparent map that contains the whole range disc, for
\* each variant, every non-origin point within range is passed to callback
\* exactly once if it lies strictly inside an octant and exactly twice if it
\* lies on a seam (dx = 0, dy = 0 or |dx| = |dy|).
C21_DuplicatesOnlyOnSeams ==
    (Finished /\ NoOpaque(LastCall.map) /\ DiscInMap(LastCall)) =>
        LET h == LastCall
        IN  \A dx \in (-h.range)..h.range : \A dy \in (-h.range)..h.range :
                (<<dx, dy>> /= <<0, 0>>
                    /\ dx * dx + dy * dy <= h.range * h.range) =>
                    Count(h.log, Point_new(h.origin.x + dx, h.origin.y + dy))
                        = IF OnSeam(dx, dy) THEN 2 ELSE 1

\* a beveled scan of range 3 has returned on a transparent map holding its
\* disc: (2, 1) off the seams was reported once, (2, 2) on a seam twice
C21_Witness ==
    /\ Finished
    /\ LastCall.variant = "cast_light_2d_beveled"
    /\ LastCall.range = 3
    /\ NoOpaque(LastCall.map)
    /\ DiscInMap(LastCall)
    /\ Count(LastCall.log,
             Point_new(LastCall.origin.x + 2, LastCall.origin.y + 1)) = 1
    /\ Count(LastCall.log,
             Point_new(LastCall.origin.x + 2, LastCall.origin.y + 2)) = 2

\* this step ends the row loop of the frame on top of the stack: the frame
\* has returned or waits in the call of line 75
RowEnds ==
    /\ stack /= <<>>
    /\ Top(stack).pc = "loop"
    /\ \/ Len(stack') < Len(stack)
       \/ stack'[Len(stack)].pc = "tail"

\* this step ends the row loop of the top frame and enters the scan of the
\* next row from line 75
TailCallEnters ==
    /\ RowEnds
    /\ Len(stack') = Len(stack) + 1

\* C22 as stated: after the row loop, if the last examined tile was not
\* opaque (or no tile was examined), the scanner recurses to row x+1 with the
\* same slope_high and slope_low bounds the frame was entered with; if the
\* last examined tile was opaque it does not recurse.
C22_TailWedgeAsEntered ==
    [][/\ TailCallEnters =>
            /\ ~Top(stack).prev_opaque
            /\ Top(stack').x = Top(stack).x + 1
            /\ Top(stack').slope_high = Top(stack).entry_slope_high
            /\ Top(stack').slope_low = Top(stack).slope_low
       /\ (RowEnds /\ Top(stack).prev_opaque) => Len(stack') < Len(stack)
      ]_vars

\* C22 amended: after the row loop, if the last examined tile was not opaque
\* (or no tile was examined), the scanner recurses to row x+1 with the
\* frame's current slope_high, which is the value the row's last
\* opaque-to-transparent update gave it and the entry value only if there was
\* no such update, and with the slope_low the frame was entered with; if the
\* last examined tile was opaque it does not recurse.
C22_TailWedgeAsLeftByRow ==
    [][/\ TailCallEnters =>
            /\ ~Top(stack).prev_opaque
            /\ Top(stack').x = Top(stack).x + 1
            /\ Top(stack').slope_high = Top(stack).slope_high
            /\ Top(stack').slope_low = Top(stack).slope_low
       /\ (RowEnds /\ Top(stack).prev_opaque) => Len(stack') < Len(stack)
      ]_vars

\* a row whose slope_high was lowered behind a wall has ended on a
\* transparent tile, and the next row is scanned with the lowered slope_high
C22_Witness ==
    /\ Len(stack) >= 2
    /\ stack[Len(stack) - 1].pc = "tail"
    /\ stack[Len(stack) - 1].slope_high /= stack[Len(stack) - 1].entry_slope_high
    /\ Top(stack).x = stack[Len(stack) - 1].x + 1
    /\ Top(stack).entry_slope_high = stack[Len(stack) - 1].slope_high

\* floor(((2x-1)*rise - run) / (2*run)) for run > 0, and 0 otherwise
FloorY0(x, slope_low) ==
    IF slope_low.run > 0
    THEN ((2 * x - 1) * slope_low.rise - slope_low.run) \div (2 * slope_low.run)
    ELSE 0

RowFrames == {i \in 1..Len(stack) : stack[i].pc /= "panic"}

\* C23: for a frame at row x with slope_low = rise/run, the lowest lateral
\* offset scanned is y0 = floor(((2x-1)*rise - run) / (2*run)) when run > 0
\* and y0 = 0 otherwise, and the row is iterated with y descending from x to
\* y0 inclusive: a frame starts at y = x, y goes down by one per tile, and the
\* loop ends below y0 unless the break of line 46 ends it.
C23_RowSetup ==
    /\ [](\A i \in RowFrames :
            /\ stack[i].y0 = FloorY0(stack[i].x, stack[i].slope_low)
            /\ stack[i].y <= stack[i].x
            /\ stack[i].y >= stack[i].y0 - 1)
    /\ [][/\ (Len(stack') > Len(stack)) => Top(stack').y = Top(stack').x
          /\ (Len(stack') >= Len(stack) /\ stack /= <<>>
                /\ Top(stack).pc = "loop"
                /\ stack'[Len(stack)].pc /= "tail") =>
                  \/ stack'[Len(stack)].y = Top(stack).y - 1
                  \/ /\ stack'[Len(stack)].pc = "call"
                     /\ stack'[Len(stack)].y = Top(stack).y
          /\ (RowEnds /\ Top(stack).y >= Top(stack).y0) =>
                  Slope_lt(tile_slope_high(tile_shape, Top(stack).x,
                                           Top(stack).y),
                           Top(stack).slope_low)
         ]_vars

\* a row behind a wall, with a slope_low of positive run and y0 >= 1,
\* has been iterated from x down to y0 and has run out
C23_Witness ==
    /\ stack /= <<>>
    /\ Top(stack).pc = "loop"
    /\ Top(stack).slope_low.run > 0
    /\ Top(stack).y0 >= 1
    /\ Top(stack).y = Top(stack).y0 - 1

\* this step examines an opaque tile behind a non-opaque one and enters the
\* scan of the next row from line 60
TransitionCallEnters ==
    /\ stack /= <<>>
    /\ Top(stack).pc = "loop"
    /\ Len(stack') = Len(stack) + 1
    /\ stack'[Len(stack)].pc = "call"

\* the world point of the tile the frame f stands on
TileOf(f) == map_pt_of(origin, transform, f.x, f.y)

\* C24: when an examined tile (x,y) is opaque and the previously examined
\* tile of the row was not (or (x,y) is the first examined tile of the row),
\* the scanner recurses to row x+1 with bounds [current slope_high,
\* tile_slope_high(x,y)], and every callback made by that sub-scan occurs
\* after the callback for (x,y) and before the callback for any tile (x,y')
\* with y' < y of the same frame: the call is entered in the step that
\* reports (x,y), only the frame on top of the stack reports tiles, and a
\* frame waiting in a call stays on its tile until the call has returned.
C24_DepthFirstTransition ==
    [][/\ TransitionCallEnters =>
            LET f == Top(stack)
            IN  /\ is_opaque(map, TileOf(f))
                /\ ~f.prev_opaque
                /\ Top(stack').x = f.x + 1
                /\ Top(stack').slope_high = f.slope_high
                /\ Top(stack').slope_low = tile_slope_high(tile_shape, f.x, f.y)
                /\ Top(stack').y = Top(stack').x
                /\ log' = IF in_range(f.x, f.y, range)
                          THEN Append(log, TileOf(f)) ELSE log
       /\ (pc = "octants" /\ log' /= log) =>
            /\ stack /= <<>>
            /\ Top(stack).pc = "loop"
            /\ log' = Append(log, TileOf(Top(stack)))
       /\ \A i \in 1..(Len(stack) - 1) :
            i < Len(stack') => stack'[i] = stack[i]
      ]_vars

\* the scan behind the wall tile of a waiting frame has just been entered:
\* its bounds are the frame's slope_high and the tile's high slope, and the
\* last point reported is the wall tile
C24_Witness ==
    /\ Len(stack) >= 2
    /\ LET f == stack[Len(stack) - 1]
           g == Top(stack)
       IN  /\ f.pc = "call"
           /\ g.pc = "loop"
           /\ g.y = g.x
           /\ g.x = f.x + 1
           /\ g.slope_high = f.slope_high
           /\ g.slope_low = tile_slope_high(tile_shape, f.x, f.y)
           /\ log[Len(log)] = TileOf(f)

\* C25: within a scanner frame, a tile (x,y) is skipped (no lookup, no
\* callback, no recursion, the row continues) if tile_slope_low(x,y) >
\* current slope_high; the row scan stops at the first tile with
\* tile_slope_high(x,y) < slope_low; every other tile is examined: its opacity
\* is looked up and transition handling runs even when x^2 + y^2 > range^2,
\* while callback is invoked for it if and only if x^2 + y^2 <= range^2.
C25_SkipStopExamine ==
    [][InLoop =>
        LET f == Top(stack)
            n == Len(stack)
            low == tile_slope_low(tile_shape, f.x, f.y)
            high == tile_slope_high(tile_shape, f.x, f.y)
            opaque == LabeledGraph_get(map, TileOf(f)) /= Some(Transparent)
        IN  IF Slope_gt(low, f.slope_high)
            THEN /\ log' = log
                 /\ stack' = [stack EXCEPT ![n].y = f.y - 1]
            ELSE IF Slope_lt(high, f.slope_low)
            THEN /\ log' = log
                 /\ RowEnds
            ELSE /\ log' = IF f.x * f.x + f.y * f.y <= range * range
                           THEN Append(log, TileOf(f)) ELSE log
                 /\ Len(stack') >= n
                 /\ stack'[n].slope_high =
                        IF f.prev_opaque /\ ~opaque
                        THEN prev_tile_slope_low(tile_shape, f.x, f.y)
                        ELSE f.slope_high
                 /\ stack'[n].pc \in {"loop", "call"}
                 /\ stack'[n].pc = "call" => ~f.prev_opaque /\ opaque
                 /\ stack'[n].pc = "loop" =>
                        /\ stack'[n].prev_opaque = opaque
                        /\ stack'[n].y = f.y - 1
                        /\ Len(stack') = n
      ]_vars

\* the opaque tile (range, range), which is out of range, has been examined:
\* it was not reported, and the frame has gone on to the next tile with
\* prev_opaque set
C25_Witness ==
    /\ stack /= <<>>
    /\ Top(stack).pc = "loop"
    /\ Top(stack).x = range
    /\ Top(stack).y = range - 1
    /\ Top(stack).prev_opaque
    /\ Count(log, map_pt_of(origin, transform, range, range)) = 0

\* C26: in every scan started by an entry point, every Slope that takes part
\* in a comparison (lines 27, 42 and 45: the bounds of a frame and the slopes
\* of its tiles) has run > 0, except the sentinel ZERO passed as the initial
\* slope_low; all slopes produced by the three tile shapes for rows x >= 1
\* have a strictly positive run.
C26_ComparedSlopesHavePositiveRun ==
    /\ \A i \in RowFrames :
           /\ stack[i].x >= 1
           /\ stack[i].slope_high.run > 0
           /\ stack[i].entry_slope_high.run > 0
           /\ stack[i].slope_low.run > 0 \/ stack[i].slope_low = ZERO
    /\ InLoop =>
           LET f == Top(stack)
           IN  /\ tile_slope_high(tile_shape, f.x, f.y).run > 0
               /\ tile_slope_low(tile_shape, f.x, f.y).run > 0
               /\ prev_tile_slope_low(tile_shape, f.x, f.y).run > 0

\* a beveled row behind a wall compares the slopes of its tile with a
\* slope_low that is not the sentinel
C26_Witness ==
    /\ InLoop
    /\ tile_shape.kind = "AdamMilazzo"
    /\ Top(stack).slope_low /= ZERO
    /\ Top(stack).slope_low.run > 0
    /\ Top(stack).slope_high /= ONE

\* a slope as a number, the sentinel ZERO counting as 0
AsValue(s) == IF s = ZERO THEN [rise |-> 0, run |-> 1] ELSE s

\* a <= b as numbers
ValueLe(a, b) ==
    AsValue(a).rise * AsValue(b).run <= AsValue(b).rise * AsValue(a).run

\* C27: wedges only narrow: for every variant, inside a scanner frame each
\* opaque-to-transparent update sets slope_high to a value not greater than
\* its previous value, and every recursive call receives bounds contained in
\* the caller's entry wedge (child slope_high <= caller's entry slope_high and
\* child slope_low >= caller's slope_low, ZERO counting as 0); hence every
\* tile reported at any depth of an octant scan lies within the wedge of each
\* enclosing frame.
C27_WedgesOnlyNarrow ==
    /\ [](\A i \in RowFrames :
            ValueLe(stack[i].slope_high, stack[i].entry_slope_high))
    /\ [][/\ (stack /= <<>> /\ Len(stack') >= Len(stack)) =>
               ValueLe(stack'[Len(stack)].slope_high, Top(stack).slope_high)
          /\ (stack /= <<>> /\ Len(stack') = Len(stack) + 1) =>
               /\ ValueLe(Top(stack').entry_slope_high,
                          Top(stack).entry_slope_high)
               /\ ValueLe(Top(stack).slope_low, Top(stack').slope_low)
          /\ (pc = "octants" /\ log' /= log) =>
               LET f == Top(stack)
               IN  \A i \in 1..Len(stack) :
                       /\ ValueLe(tile_slope_low(tile_shape, f.x, f.y),
                                  stack[i].entry_slope_high)
                       /\ ValueLe(stack[i].slope_low,
                                  tile_slope_high(tile_shape, f.x, f.y))
         ]_vars

\* two rows deep behind walls, the inner wedge is strictly narrower than the
\* wedge of the octant on both sides
C27_Witness ==
    /\ Len(stack) >= 3
    /\ Top(stack).pc = "loop"
    /\ Top(stack).y < Top(stack).x
    /\ ~ValueLe(stack[1].entry_slope_high, Top(stack).slope_high)
    /\ ~ValueLe(Top(stack).slope_low, stack[1].slope_low)

\* C28: in the beveled variant the two opacity tests differ on tiles for
\* which map.get returns None: the scanner (get != Some(Transparent)) treats
\* such a tile as opaque, while blocks_light (get == Some(Opaque)) treats it
\* as clear, so an out-of-bounds tile always gets the floor (corner) slopes and
\* an opaque tile next to the map edge is always beveled on that side; on
\* tiles where get returns Some(_) the two tests agree.
C28_OpacityTestsDifferOnNone ==
    Returned("AdamMilazzoTileShape") =>
        LET x == unit.args[4]
            y == unit.args[5]
            r == unit.result[1]
            get(cx, cy) ==
                OpacityAt(unit.args[1], unit.args[2], unit.args[3], cx, cy)
        IN  /\ get(x, y) = None =>
                  /\ r.opaque
                  /\ ~r.blocks_light
                  /\ r.high = [rise |-> 2 * y + 1, run |-> 2 * x - 1]
                  /\ r.low = [rise |-> 2 * y - 1, run |-> 2 * x + 1]
            /\ get(x, y) /= None => (r.opaque <=> r.blocks_light)
            /\ (get(x, y) = Some(Opaque) /\ get(x, y + 1) = None) =>
                  r.high = [rise |-> 2 * y + 1, run |-> 2 * x]
            /\ (get(x, y) = Some(Opaque) /\ get(x + 1, y) = None) =>
                  r.low = [rise |-> 2 * y - 1, run |-> 2 * x]
            /\ get(x + 1, y) = None =>
                  r.prev_low = [rise |-> 2 * y, run |-> 2 * x]

\* a tile outside the map has been tested both ways, with different answers,
\* and has got the corner slopes
C28_Witness ==
    /\ Returned("AdamMilazzoTileShape")
    /\ OpacityAt(unit.args[1], unit.args[2], unit.args[3], unit.args[4],
                 unit.args[5]) = None
    /\ unit.result[1].opaque
    /\ ~unit.result[1].blocks_light
    /\ unit.result[1].high =
          [rise |-> 2 * unit.args[5] + 1, run |-> 2 * unit.args[4] - 1]

\* the point m times as far from o as p, on the same ray
Behind(o, p, m) == Point_new(o.x + m * (p.x - o.x), o.y + m * (p.y - o.y))

\* C29: the visible set is not restricted to the map's domain: a point for
\* which map.get returns None is passed to callback whenever it is examined
\* within the current wedge and within range (it is reported like a visible
\* wall), while no point lying behind it in that wedge (farther from the
\* origin on the ray through it) is reported.
C29_OutsideMapReportedAsWall ==
    /\ [][(InLoop /\ LabeledGraph_get(map, TileOf(Top(stack))) = None) =>
            LET f == Top(stack)
                n == Len(stack)
            IN  \/ Slope_gt(tile_slope_low(tile_shape, f.x, f.y), f.slope_high)
                \/ Slope_lt(tile_slope_high(tile_shape, f.x, f.y), f.slope_low)
                \/ /\ f.x * f.x + f.y * f.y <= range * range =>
                          log' = Append(log, TileOf(f))
                   /\ stack'[n].pc = "call" \/ stack'[n].prev_opaque
          ]_vars
    /\ [](Finished =>
            \A i \in 2..Len(LastCall.log) :
                Grid2D_get(LastCall.map, LastCall.log[i]) = None =>
                    \A m \in 2..LastCall.range :
                        Behind(LastCall.origin, LastCall.log[i], m)
                            \notin LastCall.visible)

\* a diamond or beveled call from outside the map has returned: it reported
\* a point outside the map, and the transparent map tile right behind that
\* point, within range, was not reported
C29_Witness ==
    /\ Finished
    /\ LastCall.variant /= "cast_light_2d"
    /\ \E i \in 2..Len(LastCall.log) :
          LET q == Behind(LastCall.origin, LastCall.log[i], 2)
          IN  /\ Grid2D_get(LastCall.map, LastCall.log[i]) = None
              /\ Grid2D_get(LastCall.map, q) = Some(Transparent)
              /\ SqDist(LastCall.origin, q) <= LastCall.range * LastCall.range
              /\ q \notin LastCall.visible

\* C30: Slope equality is structural while ordering is by value: a == b
\* holds iff rise and run are equal after sign normalization, so a == b
\* implies cmp(a,b) = Equal, but cmp(a,b) = Equal does not imply a == b:
\* cmp(a,b) = Equal holds whenever the cross products are equal, so 1/2 and
\* the unreduced 2/4 compare Equal but are not ==, and ZERO compares Equal to
\* every slope while being == only to itself.
C30_EqualityStructuralOrderByValue ==
    Returned("Slope::cmp") =>
        LET a == unit.args[1]
            b == unit.args[2]
            r == unit.result[1]
        IN  /\ r.a_eq_b <=> (a.rise = b.rise /\ a.run = b.run)
            /\ r.a_eq_b => r.ab = "Equal"
            /\ r.ab = "Equal" <=> (a.rise * b.run = b.rise * a.run)
            /\ (a = [rise |-> 1, run |-> 2] /\ b = [rise |-> 2, run |-> 4]) =>
                  (r.ab = "Equal" /\ ~r.a_eq_b)
            /\ b = ZERO => (r.ab = "Equal" /\ (r.a_eq_b <=> a = ZERO))

\* 1/2 and 2/4 have been compared: Equal by cmp and not ==
C30_Witness ==
    /\ Returned("Slope::cmp")
    /\ unit.args[1] = Slope_new(1, 2)
    /\ unit.args[2] = Slope_new(2, 4)
    /\ unit.result[1].ab = "Equal"
    /\ ~unit.result[1].a_eq_b

====
